---- MODULE Spec2Model ----
(***************************************************************************)
(* Model of python/main.py: the item-catalog backend (FastAPI + sqlite3).  *)
(*                                                                         *)
(* State: the rows of table `items`, the files of three directories (the   *)
(* process working directory, its sub-directory images/ that add_item      *)
(* writes, and the directory image/ beside main.py that get_image reads),  *)
(* the POST /items requests in flight (add_item is a plain `def`, so the   *)
(* framework runs each call on a worker thread and calls interleave        *)
(* between their file and database operations), and the last response of   *)
(* a GET handler.                                                          *)
(*                                                                         *)
(* Byte strings, file names and SQL text values are TLA+ strings.          *)
(***************************************************************************)
EXTENDS Integers, Sequences, FiniteSets, TLC

VARIABLES table, files, req, resp

vars == <<table, files, req, resp>>

---------------------------------------------------------------------------
(* Bounds of the model *)

\* number of POST /items requests a behaviour contains
MaxRequests == 2

\* random.randint(1,100), main.py line 113
IdMin == 1
IdMax == 100

Requests == 1..MaxRequests

\* the ids the model draws: both ends of the range of random.randint(1,100)
DrawnIds == {IdMin, IdMax}

\* form field `name`
Names == {"AB", "07"}

\* form field `category`
Categories == {"toy"}

\* form field `image`: the uploaded bytes
Uploads == {"images/a1.jpg", "JFIF"}

\* query parameter `keyword` of GET /search; <<>> is the missing parameter
\* (Python None, bound as SQL NULL), <<k>> the keyword k
Keywords == {<<>>, <<"ab">>, <<"a_">>, <<"%">>, <<"7">>}

\* path parameter of GET /image/{items_image}
ImageNames == {"cat.jpg", "a1.jpg", "x.png", "y.png"}

---------------------------------------------------------------------------
(* Strings *)

\* str.endswith
EndsWith(s, suffix) ==
    /\ Len(s) >= Len(suffix)
    /\ SubSeq(s, Len(s) - Len(suffix) + 1, Len(s)) = suffix

StartsWith(s, prefix) ==
    /\ Len(s) >= Len(prefix)
    /\ SubSeq(s, 1, Len(prefix)) = prefix

UpperCase == "ABCDEFGHIJKLMNOPQRSTUVWXYZ"
LowerCase == "abcdefghijklmnopqrstuvwxyz"
Digits == {"0", "1", "2", "3", "4", "5", "6", "7", "8", "9"}

\* sqlite's LIKE folds the case of the 26 ASCII letters and of nothing else
FoldChar(ch) ==
    IF \E i \in 1..26 : SubSeq(UpperCase, i, i) = ch
    THEN LET i == CHOOSE j \in 1..26 : SubSeq(UpperCase, j, j) = ch
         IN  SubSeq(LowerCase, i, i)
    ELSE ch

---------------------------------------------------------------------------
(* hashlib.sha256(data).hexdigest()                                        *)
(* SHA-256 is not computed: it is a fixed collision-free table over the    *)
(* byte strings that occur as file contents or uploads, with the 64 hex    *)
(* digits of a digest abbreviated to two.                                  *)
sha256hex(data) ==
    CASE data = "import"        -> "a1"
      [] data = "main.py"       -> "b2"
      [] data = "images/a1.jpg" -> "c3"
      [] data = "JFIF"          -> "d4"
      [] OTHER                  -> "e5"

---------------------------------------------------------------------------
(* File system *)

\* a directory is a function from the names of its files to their contents
EmptyDir == [n \in {} |-> ""]

WriteFile(dir, n, data) ==
    [x \in (DOMAIN dir) \cup {n} |-> IF x = n THEN data ELSE dir[x]]

\* open(path, 'rb').read() with a path relative to the working directory:
\* <<contents>>, or <<>> when open() raises (no such file)
ReadPath(fs, path) ==
    IF path \in DOMAIN fs["cwd"]
    THEN <<fs["cwd"][path]>>
    ELSE IF /\ StartsWith(path, "images/")
            /\ SubSeq(path, 8, Len(path)) \in DOMAIN fs["images"]
         THEN <<fs["images"][SubSeq(path, 8, Len(path))]>>
         ELSE <<>>

\* image_toHash(image): opens its argument as a path and hashes what it reads
image_toHash(fs, image) ==
    LET f == ReadPath(fs, image)
    IN  IF f = <<>> THEN <<>> ELSE <<sha256hex(f[1])>>

\* add_item writing into the directory get_image serves
file_location_dir_served == "image"

\* the directory of file_location = f"images/{image_name}"
file_location_dir == "images"

\* the directory of images = pathlib.Path(__file__).parent.resolve() / "image"
images == "image"

---------------------------------------------------------------------------
(* Table items (id int, name string, category string, image string)       *)

RECURSIVE IsDigits(_)
IsDigits(s) ==
    IF s = "" THEN TRUE
    ELSE Head(s) \in Digits /\ IsDigits(Tail(s))

RECURSIVE StripZeros(_)
StripZeros(s) ==
    IF Len(s) > 1 /\ Head(s) = "0" THEN StripZeros(Tail(s)) ELSE s

\* A column declared `string` has NUMERIC affinity in sqlite: a text that is
\* a well-formed integer literal is stored as that integer, any other text
\* is stored as it is.  A stored value is its storage class and its text.
StoredValue(s) ==
    IF s # "" /\ IsDigits(s)
    THEN [type |-> "integer", text |-> StripZeros(s)]
    ELSE [type |-> "text", text |-> s]

\* INSERT INTO items(id,name,category,image) VALUES(?,?,?,?)
NewRow(id, name, category, image_name) ==
    [id |-> id, name |-> StoredValue(name), category |-> StoredValue(category),
     image |-> StoredValue(image_name)]

\* add_sql on a table whose id is a key, as INSERT OR IGNORE: a row whose id
\* is taken is not inserted
add_sql_unique(t, id, name, category, image_name) ==
    IF \E i \in DOMAIN t : t[i].id = id
    THEN t
    ELSE Append(t, NewRow(id, name, category, image_name))

\* add_sql on a table whose id is a key, as INSERT OR REPLACE: the row takes
\* the place of the rows with its id
add_sql_replace(t, id, name, category, image_name) ==
    Append(SelectSeq(t, LAMBDA row : row.id # id),
           NewRow(id, name, category, image_name))

\* add_sql: the row is appended, whatever the ids already in the table
add_sql(t, id, name, category, image_name) ==
    Append(t, NewRow(id, name, category, image_name))

\* LIKE under PRAGMA case_sensitive_like: letters match themselves only
RECURSIVE LikeCaseSensitive(_, _)
LikeCaseSensitive(p, s) ==
    IF p = "" THEN s = ""
    ELSE IF Head(p) = "%"
         THEN LikeCaseSensitive(Tail(p), s)
                 \/ (s # "" /\ LikeCaseSensitive(p, Tail(s)))
         ELSE IF s = "" THEN FALSE
              ELSE IF Head(p) = "_" THEN LikeCaseSensitive(Tail(p), Tail(s))
                   ELSE /\ Head(p) = Head(s)
                        /\ LikeCaseSensitive(Tail(p), Tail(s))

\* X LIKE P in sqlite: % matches any run of characters, _ any one character,
\* any other character matches itself up to ASCII case; no escape character
RECURSIVE Like(_, _)
Like(p, s) ==
    IF p = "" THEN s = ""
    ELSE IF Head(p) = "%"
         THEN Like(Tail(p), s) \/ (s # "" /\ Like(p, Tail(s)))
         ELSE IF s = "" THEN FALSE
              ELSE IF Head(p) = "_" THEN Like(Tail(p), Tail(s))
                   ELSE /\ FoldChar(Head(p)) = FoldChar(Head(s))
                        /\ Like(Tail(p), Tail(s))

\* name LIKE ? : NULL for a NULL pattern, and WHERE keeps only TRUE
NameLike(keyword, row) ==
    IF keyword = <<>> THEN FALSE ELSE Like(keyword[1], row.name.text)

\* db_toList with line 63 (d['id'] = row[0]) in force
RECURSIVE db_toList_with_id(_)
db_toList_with_id(items) ==
    IF items = <<>> THEN <<>>
    ELSE <<[id |-> Head(items).id, name |-> Head(items).name,
            category |-> Head(items).category,
            image |-> Head(items).image]>> \o db_toList_with_id(Tail(items))

\* db_toList: one ordered dict per row, without the id
RECURSIVE db_toList(_)
db_toList(items) ==
    IF items = <<>> THEN <<>>
    ELSE <<[name |-> Head(items).name, category |-> Head(items).category,
            image |-> Head(items).image]>> \o db_toList(Tail(items))

---------------------------------------------------------------------------
(* Responses of the GET handlers *)

NoResponse == [route |-> "none", input |-> "", status |-> 0, body |-> ""]

rootResponse ==
    [route |-> "root", input |-> "", status |-> 200, body |-> "Hello, world!"]

show_itemResponse(t) ==
    [route |-> "items", input |-> "", status |-> 200, body |-> db_toList(t)]

search_itemResponse(t, keyword) ==
    [route |-> "search", input |-> keyword, status |-> 200,
     body |-> db_toList(SelectSeq(t, LAMBDA row : NameLike(keyword, row)))]

\* get_image looking for the file before it looks at the suffix
get_imageResponse_exists_first(fs, items_image) ==
    IF items_image \in DOMAIN fs[images]
    THEN [route |-> "image", input |-> items_image, status |-> 200,
          body |-> fs[images][items_image]]
    ELSE IF ~EndsWith(items_image, ".jpg")
         THEN [route |-> "image", input |-> items_image, status |-> 400,
               body |-> "Image path does not end with .jpg"]
         ELSE [route |-> "image", input |-> items_image, status |-> 200,
               body |-> fs[images]["default.jpg"]]

\* get_image answering 404 for a file that is not there
get_imageResponse_not_found(fs, items_image) ==
    IF ~EndsWith(items_image, ".jpg")
    THEN [route |-> "image", input |-> items_image, status |-> 400,
          body |-> "Image path does not end with .jpg"]
    ELSE IF items_image \notin DOMAIN fs[images]
         THEN [route |-> "image", input |-> items_image, status |-> 404,
               body |-> "Image not found"]
         ELSE [route |-> "image", input |-> items_image, status |-> 200,
               body |-> fs[images][items_image]]

\* lines 129-141
get_imageResponse(fs, items_image) ==
    IF ~EndsWith(items_image, ".jpg")
    THEN [route |-> "image", input |-> items_image, status |-> 400,
          body |-> "Image path does not end with .jpg"]
    ELSE IF items_image \notin DOMAIN fs[images]
         THEN [route |-> "image", input |-> items_image, status |-> 200,
               body |-> fs[images]["default.jpg"]]
         ELSE [route |-> "image", input |-> items_image, status |-> 200,
               body |-> fs[images][items_image]]

---------------------------------------------------------------------------
(* Initial state *)

NewRequest ==
    [pc |-> "new", name |-> "", category |-> "", image |-> "",
     image_name |-> "", id |-> 0]

\* a request that ended in a server error keeps nothing but the name of the
\* file it wrote, if it wrote one
Ended(pc, image_name) ==
    [pc |-> pc, name |-> "", category |-> "", image |-> "",
     image_name |-> image_name, id |-> 0]

\* the served directory, with the placeholder default.jpg
ServedDir ==
    ("default.jpg" :> "placeholder") @@ ("cat.jpg" :> "cat") @@
    ("x.png" :> "png")

\* the working directory holds main.py
WorkingDir == ("main.py" :> "import")

\* images/ is empty, or holds a file named by the digest of its contents
ImagesDirs == {EmptyDir, ("a1.jpg" :> "import")}

Init ==
    /\ table = <<>>
    /\ \E d \in ImagesDirs :
          files = [cwd |-> WorkingDir, images |-> d, image |-> ServedDir]
    /\ req = [r \in Requests |-> NewRequest]
    /\ resp = NoResponse

---------------------------------------------------------------------------
(* POST /items                                                             *)
(* The requests are alike, so they are numbered in the order in which they *)
(* arrive: request r arrives after the requests before it.                 *)

\* line 105, open() raises: the request ends in a server error
add_item_hash_fails(r) ==
    /\ req[r].pc = "new"
    /\ \A q \in 1..(r - 1) : req[q].pc # "new"
    /\ \E name \in Names, category \in Categories, image \in Uploads :
          /\ image_toHash(files, image) = <<>>
          /\ req' = [req EXCEPT ![r] = Ended("error", "")]
    /\ UNCHANGED <<table, files, resp>>

\* line 105
add_item_hash(r) ==
    /\ req[r].pc = "new"
    /\ \A q \in 1..(r - 1) : req[q].pc # "new"
    /\ \E name \in Names, category \in Categories, image \in Uploads :
          /\ image_toHash(files, image) # <<>>
          /\ req' = [req EXCEPT ![r] = [pc |-> "hashed", name |-> name,
                        category |-> category, image |-> image,
                        image_name |-> image_toHash(files, image)[1] \o ".jpg",
                        id |-> 0]]
    /\ UNCHANGED <<table, files, resp>>

\* lines 106-113: the upload is written, then the id is drawn
add_item_write(r) ==
    /\ req[r].pc = "hashed"
    /\ files' = [files EXCEPT ![file_location_dir] =
                    WriteFile(@, req[r].image_name, req[r].image)]
    /\ \E id \in DrawnIds :
          req' = [req EXCEPT ![r].pc = "written", ![r].id = id]
    /\ UNCHANGED <<table, resp>>

\* lines 114-115
add_item_insert(r) ==
    /\ req[r].pc = "written"
    /\ table' = add_sql(table, req[r].id, req[r].name, req[r].category,
                        req[r].image_name)
    /\ req' = [req EXCEPT ![r].pc = "done", ![r].id = 0]
    /\ UNCHANGED <<files, resp>>

\* add_item removing the file it wrote when add_sql raises
add_item_insert_fails_cleanup(r) ==
    /\ req[r].pc = "written"
    /\ req' = [req EXCEPT ![r] = Ended("error", req[r].image_name)]
    /\ files' = [files EXCEPT ![file_location_dir] =
                    [n \in (DOMAIN @) \ {req[r].image_name} |-> @[n]]]
    /\ UNCHANGED <<table, resp>>

\* line 114, add_sql raises (database locked or missing): server error
add_item_insert_fails(r) ==
    /\ req[r].pc = "written"
    /\ req' = [req EXCEPT ![r] = Ended("error", req[r].image_name)]
    /\ UNCHANGED <<table, files, resp>>

---------------------------------------------------------------------------
(* GET handlers *)

root ==
    /\ resp' = rootResponse
    /\ UNCHANGED <<table, files, req>>

show_item ==
    /\ resp' = show_itemResponse(table)
    /\ UNCHANGED <<table, files, req>>

search_item ==
    /\ \E keyword \in Keywords : resp' = search_itemResponse(table, keyword)
    /\ UNCHANGED <<table, files, req>>

get_image ==
    /\ \E items_image \in ImageNames :
          resp' = get_imageResponse(files, items_image)
    /\ UNCHANGED <<table, files, req>>

---------------------------------------------------------------------------

Next ==
    \/ \E r \in Requests : add_item_hash(r)
    \/ \E r \in Requests : add_item_hash_fails(r)
    \/ \E r \in Requests : add_item_write(r)
    \/ \E r \in Requests : add_item_insert(r)
    \/ \E r \in Requests : add_item_insert_fails(r)
    \/ root
    \/ show_item
    \/ search_item
    \/ get_image

Spec == Init /\ [][Next]_vars

---------------------------------------------------------------------------
(* Properties *)

\* a step of GET /items, of GET /search, of a POST /items request
ListStep == resp'.route = "items" /\ UNCHANGED <<table, files, req>>
SearchStep == resp'.route = "search" /\ UNCHANGED <<table, files, req>>
InsertStep(r) == req[r].pc = "written" /\ req'[r].pc = "done"
InsertFailsStep(r) == req[r].pc = "written" /\ req'[r].pc = "error"

\* the JSON string s, as a value of a response
JsonString(s) == [type |-> "text", text |-> s]

\* the rows of t whose image column is the file name n
RowsWithImage(t, n) == {i \in DOMAIN t : t[i].image = JsonString(n)}

RECURSIVE FoldCase(_)
FoldCase(s) ==
    IF s = "" THEN "" ELSE FoldChar(Head(s)) \o FoldCase(Tail(s))

NoWildcard(k) == \A i \in 1..Len(k) : SubSeq(k, i, i) \notin {"%", "_"}

\* C1: a list request made after a create-item request (name, category, b)
\* has completed returns an entry with that name and category and with
\* image sha256hex(b) + ".jpg", the digest being that of the bytes b.
C1_ListShowsSubmittedItem ==
    [][ListStep =>
         \A r \in Requests :
            req[r].pc = "done" =>
               \E i \in DOMAIN resp'.body :
                  resp'.body[i] =
                     [name |-> JsonString(req[r].name),
                      category |-> JsonString(req[r].category),
                      image |-> JsonString(sha256hex(req[r].image) \o ".jpg")]
      ]_vars

\* C2: two completed create-item requests with the same image bytes derived
\* the same file name, the table holds a row of each with that file name,
\* and both wrote the one file of that name.
C2_SameBytesSameFilename ==
    \A r1, r2 \in Requests :
       (/\ r1 # r2
        /\ req[r1].pc = "done" /\ req[r2].pc = "done"
        /\ req[r1].image = req[r2].image)
       => /\ req[r1].image_name = req[r2].image_name
          /\ Cardinality(RowsWithImage(table, req[r1].image_name)) >= 2

\* C3: GET /image/{name} with a name that does not end in ".jpg" answers
\* 400 with the error detail and no file content, whether or not the
\* served directory holds a file of that name.
C3_NonJpgRejected ==
    (resp.route = "image" /\ ~EndsWith(resp.input, ".jpg"))
    => /\ resp.status = 400
       /\ resp.body = "Image path does not end with .jpg"
       /\ \A n \in DOMAIN files[images] : resp.body # files[images][n]

C3_Witness ==
    /\ resp.route = "image"
    /\ resp.input = "x.png"
    /\ resp.input \in DOMAIN files[images]
    /\ resp.status = 400

\* C4: GET /image/{name} with a name ending in ".jpg" answers 200, with the
\* bytes of default.jpg when the served directory has no file of that name
\* and with the file's own bytes when it has one.
C4_MissingJpgServesDefault ==
    (resp.route = "image" /\ EndsWith(resp.input, ".jpg"))
    => /\ resp.status = 200
       /\ resp.input \notin DOMAIN files[images]
             => resp.body = files[images]["default.jpg"]
       /\ resp.input \in DOMAIN files[images]
             => resp.body = files[images][resp.input]

C4_Witness ==
    /\ resp.route = "image"
    /\ resp.input = "a1.jpg"
    /\ resp.input \notin DOMAIN files[images]
    /\ resp.status = 200
    /\ resp.body = "placeholder"

\* C5, as claimed: GET /search with a keyword k without wildcard returns
\* exactly the rows whose name is exactly k, and with the keyword missing
\* it returns no rows.
C5_LikeIsEquality ==
    [][SearchStep =>
         IF resp'.input = <<>>
         THEN resp'.body = <<>>
         ELSE NoWildcard(resp'.input[1]) =>
                 resp'.body = db_toList(SelectSeq(table,
                    LAMBDA row : row.name.text = resp'.input[1]))
      ]_vars

\* C5, amended: GET /search with a keyword k without wildcard returns
\* exactly the rows whose name equals k up to the case of the ASCII
\* letters, in table order, and with the keyword missing it returns no rows.
C5_LikeIsEqualityUpToCase ==
    [][SearchStep =>
         IF resp'.input = <<>>
         THEN resp'.body = <<>>
         ELSE NoWildcard(resp'.input[1]) =>
                 resp'.body = db_toList(SelectSeq(table,
                    LAMBDA row :
                       FoldCase(row.name.text) = FoldCase(resp'.input[1])))
      ]_vars

C5_Witness ==
    /\ resp.route = "search"
    /\ resp.input = <<"ab">>
    /\ Len(resp.body) = 2
    /\ \A i \in DOMAIN resp.body : resp.body[i].name = JsonString("AB")

\* C6: GET /items returns one entry per row of the table, in table order,
\* each with the name, category and image of its row and without the id;
\* for the empty table it returns the empty list.
C6_ListIsTableWithoutId ==
    [][ListStep =>
         /\ resp'.status = 200
         /\ Len(resp'.body) = Len(table)
         /\ \A i \in DOMAIN table :
               /\ DOMAIN resp'.body[i] = {"name", "category", "image"}
               /\ resp'.body[i].name = table[i].name
               /\ resp'.body[i].category = table[i].category
               /\ resp'.body[i].image = table[i].image
         /\ table = <<>> => resp'.body = <<>>
      ]_vars

C6_Witness ==
    /\ resp.route = "items"
    /\ Len(table) = 2
    /\ table[1].name # table[2].name
    /\ Len(resp.body) = 2
    /\ resp.body[1].name = table[1].name
    /\ resp.body[2].name = table[2].name

\* C7: the id of a request is one of 1..100 and its insert appends a row
\* with exactly that id, whatever ids the table holds: an id that is
\* already in the table is neither rejected nor replaced by another.
C7_CollidingIdAccepted ==
    [][\A r \in Requests :
          InsertStep(r) =>
             /\ req[r].id \in IdMin..IdMax
             /\ Len(table') = Len(table) + 1
             /\ table'[Len(table')].id = req[r].id
      ]_vars

C7_Witness ==
    /\ \A r \in Requests : req[r].pc = "done"
    /\ Len(table) = 2
    /\ table[1].id = table[2].id

C9_UploadNotServed ==
    /\ [][files'[images] = files[images]]_vars
    /\ [](\A r \in Requests :
             (/\ req[r].pc = "done"
              /\ resp.route = "image"
              /\ resp.status = 200
              /\ resp.body = req[r].image)
             => \E n \in DOMAIN ServedDir : ServedDir[n] = req[r].image)

C9_Witness ==
    \E r \in Requests :
       /\ req[r].pc = "done"
       /\ req[r].image_name \in DOMAIN files[file_location_dir]
       /\ files[file_location_dir][req[r].image_name] = req[r].image
       /\ resp.route = "image"
       /\ resp.input = req[r].image_name
       /\ resp.body # req[r].image
       /\ files[images] = ServedDir

\* C10: a step changes the table only as the insert of a create-item, which
\* appends one row and keeps the rows before it; a step of a GET handler
\* changes neither the table nor the files.
C10_RowsOnlyAppended ==
    [][/\ table' # table =>
             /\ \E r \in Requests : InsertStep(r)
             /\ Len(table') = Len(table) + 1
             /\ SubSeq(table', 1, Len(table)) = table
       /\ \A r \in Requests :
             InsertStep(r) => Len(table') = Len(table) + 1
       /\ req' = req => (table' = table /\ files' = files)
      ]_vars

C10_Witness ==
    /\ \A r \in Requests : req[r].pc = "done"
    /\ Len(table) = 2
    /\ table[1] # table[2]
    /\ resp.route = "search"
    /\ resp.input = <<"%">>
    /\ Len(resp.body) = 2

====
